---- MODULE Spec2Model ----
(***************************************************************************)
(* Model of the e-mail discovery pipeline of server/python/email_sleuth.py *)
(* (normalize_name, generate_email_patterns, get_mx_records,               *)
(* check_smtp_available, verify_email_smtp, discover_email).               *)
(*                                                                         *)
(* Python strings are sequences of one-character strings, so that          *)
(* lower(), strip(), split(), startswith() and slicing are computed and    *)
(* not assumed.                                                            *)
(***************************************************************************)
EXTENDS Integers, Sequences, FiniteSets, TLC

\* ---------------------------------------------------------------- strings

UpperChars ==
    <<"A","B","C","D","E","F","G","H","I","J","K","L","M",
      "N","O","P","Q","R","S","T","U","V","W","X","Y","Z">>

LowerChars ==
    <<"a","b","c","d","e","f","g","h","i","j","k","l","m",
      "n","o","p","q","r","s","t","u","v","w","x","y","z">>

WhitespaceChars == {" ", "\t", "\n"}

Range(s) == {s[i] : i \in 1..Len(s)}

\* str.lower() on one character
LowerChar(c) ==
    IF \E i \in 1..Len(UpperChars) : UpperChars[i] = c
    THEN LowerChars[CHOOSE i \in 1..Len(UpperChars) : UpperChars[i] = c]
    ELSE c

\* str.lower()
Lower(s) == [i \in 1..Len(s) |-> LowerChar(s[i])]

\* str.strip(): drop leading and trailing whitespace
Strip(s) ==
    LET keep == {i \in 1..Len(s) : s[i] \notin WhitespaceChars}
    IN  IF keep = {} THEN <<>>
        ELSE LET lo == CHOOSE i \in keep : \A j \in keep : i <= j
                 hi == CHOOSE i \in keep : \A j \in keep : j <= i
             IN  SubSeq(s, lo, hi)

\* str.startswith(p)
StartsWith(s, p) == Len(s) >= Len(p) /\ SubSeq(s, 1, Len(p)) = p

\* s[n:] for n >= 0
DropFirst(s, n) == SubSeq(s, n + 1, Len(s))

\* re.sub(r'[^a-z\s\-]', '', s): keep only a-z, whitespace and hyphen
KeepNameChars(s) ==
    SelectSeq(s, LAMBDA c : c \in Range(LowerChars) \cup WhitespaceChars \cup {"-"})

\* str.replace(c, ''): delete every occurrence of one character
RemoveChar(s, c) == SelectSeq(s, LAMBDA x : x # c)

\* str.split() without a separator: the maximal runs of non-whitespace
RECURSIVE SplitWs(_)
SplitWs(s) ==
    LET t == Strip(s)
    IN  IF t = <<>> THEN <<>>
        ELSE LET ws  == {i \in 1..Len(t) : t[i] \in WhitespaceChars}
                 cut == IF ws = {} THEN Len(t) + 1
                        ELSE CHOOSE i \in ws : \A j \in ws : i <= j
             IN  <<SubSeq(t, 1, cut - 1)>> \o SplitWs(DropFirst(t, cut))

\* str.split(sep) with an explicit separator: always at least one piece,
\* empty pieces kept
RECURSIVE SplitOn(_, _)
SplitOn(s, sep) ==
    LET hits == {i \in 1..(Len(s) - Len(sep) + 1) : SubSeq(s, i, i + Len(sep) - 1) = sep}
    IN  IF hits = {} THEN <<s>>
        ELSE LET at == CHOOSE i \in hits : \A j \in hits : i <= j
             IN  <<SubSeq(s, 1, at - 1)>> \o SplitOn(DropFirst(s, at + Len(sep) - 1), sep)

\* ---------------------------------------------------------- normalize_name

\* normalize_name(name) -> (first, last)
normalize_name(name) ==
    LET parts == SplitWs(KeepNameChars(Lower(Strip(name))))
        first == IF Len(parts) >= 1 THEN parts[1] ELSE <<>>
        last  == IF Len(parts) >= 2 THEN parts[Len(parts)] ELSE <<>>
    IN  [first |-> RemoveChar(first, "-"), last |-> RemoveChar(last, "-")]

\* ------------------------------------------------- generate_email_patterns

\* EmailCandidate(email, pattern, confidence): verified defaults to None and
\* verification_message to the empty string
NoMessage == [kind |-> "", code |-> 0, text |-> ""]

EmailCandidate(email, pattern, confidence) ==
    [email |-> email, pattern |-> pattern, confidence |-> confidence,
     verified |-> "None", verification_message |-> NoMessage]

\* variant: the catalog stops after the ninth template
pattern_templatesNine(first, last, domain) ==
    LET f  == IF first # <<>> THEN <<first[1]>> ELSE <<>>
        l  == IF last # <<>> THEN <<last[1]>> ELSE <<>>
        at == <<"@">> \o domain
    IN  << <<first \o <<".">> \o last \o at, "firstname.lastname", 95>>,
           <<first \o last \o at,            "firstnamelastname",  90>>,
           <<f \o last \o at,                "f.lastname",         85>>,
           <<first \o <<"_">> \o last \o at, "firstname_lastname", 80>>,
           <<first \o <<"-">> \o last \o at, "firstname-lastname", 75>>,
           <<last \o <<".">> \o first \o at, "lastname.firstname", 70>>,
           <<f \o <<".">> \o last \o at,     "f.lastname",         65>>,
           <<first \o at,                    "firstname",          60>>,
           <<first \o l \o at,               "firstnamel",         55>> >>

\* the ten (email, pattern, confidence) templates, in catalog order
pattern_templates(first, last, domain) ==
    LET f  == IF first # <<>> THEN <<first[1]>> ELSE <<>>
        l  == IF last # <<>> THEN <<last[1]>> ELSE <<>>
        at == <<"@">> \o domain
    IN  << <<first \o <<".">> \o last \o at, "firstname.lastname", 95>>,
           <<first \o last \o at,            "firstnamelastname",  90>>,
           <<f \o last \o at,                "f.lastname",         85>>,
           <<first \o <<"_">> \o last \o at, "firstname_lastname", 80>>,
           <<first \o <<"-">> \o last \o at, "firstname-lastname", 75>>,
           <<last \o <<".">> \o first \o at, "lastname.firstname", 70>>,
           <<f \o <<".">> \o last \o at,     "f.lastname",         65>>,
           <<first \o at,                    "firstname",          60>>,
           <<first \o l \o at,               "firstnamel",         55>>,
           <<f \o l \o at,                   "fl",                 50>> >>

\* the defensive filter of the template loop
TemplateKept(email) ==
    email # <<>> /\ "@" \in Range(email) /\ ~StartsWith(email, <<"@">>)

\* variant: no de-duplication
UniqueByEmailKeepAll(patterns, seen) == patterns

\* the loop that keeps the first occurrence of every address
RECURSIVE UniqueByEmail(_, _)
UniqueByEmail(patterns, seen) ==
    IF patterns = <<>> THEN <<>>
    ELSE IF Head(patterns).email \in seen
         THEN UniqueByEmail(Tail(patterns), seen)
         ELSE <<Head(patterns)>>
              \o UniqueByEmail(Tail(patterns), seen \cup {Head(patterns).email})

\* generate_email_patterns(first, last, domain) -> List[EmailCandidate]
generate_email_patterns(first, last, domain) ==
    IF first = <<>> \/ domain = <<>> THEN <<>>
    ELSE LET tpl  == pattern_templates(first, last, domain)
             kept == SelectSeq(tpl, LAMBDA t : TemplateKept(t[1]))
             patterns ==
                 IF last # <<>>
                 THEN [i \in 1..Len(kept) |->
                          EmailCandidate(Lower(kept[i][1]), kept[i][2], kept[i][3])]
                 ELSE <<EmailCandidate(Lower(first \o <<"@">> \o domain), "firstname", 60)>>
         IN  UniqueByEmail(patterns, {})

\* ------------------------------------------------------ domain clean-up

\* lines 181-185 of discover_email: lower, strip, drop scheme and "www.".
\* domain.split('//')[1] raises IndexError when the text starts with "http"
\* and holds no "//".
CleanDomain(domain) ==
    LET d0 == Strip(Lower(domain))
        http == <<"h","t","t","p">>
        www  == <<"w","w","w",".">>
        pieces == SplitOn(d0, <<"/","/">>)
    IN  IF StartsWith(d0, http) /\ Len(pieces) < 2
        THEN [raised |-> TRUE, domain |-> d0]
        ELSE LET d1 == IF StartsWith(d0, http)
                       THEN SplitOn(pieces[2], <<"/">>)[1]
                       ELSE d0
                 d2 == IF StartsWith(d1, www) THEN DropFirst(d1, 4) ELSE d1
             IN  [raised |-> FALSE, domain |-> d2]

\* ------------------------------------------------------------ get_mx_records

\* sorted(mx_records, key=preference): stable insertion into a sorted list
RECURSIVE SortByPreference(_)
InsertByPreference(r, sorted) ==
    LET before == {i \in 1..Len(sorted) : sorted[i].preference <= r.preference}
        k == Cardinality(before)
    IN  SubSeq(sorted, 1, k) \o <<r>> \o SubSeq(sorted, k + 1, Len(sorted))

SortByPreference(rs) ==
    IF rs = <<>> THEN <<>>
    ELSE InsertByPreference(rs[Len(rs)], SortByPreference(SubSeq(rs, 1, Len(rs) - 1)))

\* str.rstrip('.')
RECURSIVE RStripDot(_)
RStripDot(s) ==
    IF s # <<>> /\ s[Len(s)] = "." THEN RStripDot(SubSeq(s, 1, Len(s) - 1)) ELSE s

\* get_mx_records(domain): answer is what the resolver gave: "error" (any
\* exception: NXDOMAIN, NoAnswer, timeout) or the record set of the reply
get_mx_records(answer) ==
    IF answer.error THEN <<>>
    ELSE LET s == SortByPreference(answer.records)
         IN  [i \in 1..Len(s) |-> RStripDot(s[i].exchange)]

\* --------------------------------------------------------- verify_email_smtp

\* What the network and the mail server do during one SMTP session:
\* fail_at is the first call that raises ("none": no call raises), exc the
\* exception class raised there, code the reply code to RCPT, text the
\* reply text (or str(e) of a raised exception).
Session(fail_at, exc, code, text) ==
    [fail_at |-> fail_at, exc |-> exc, code |-> code, text |-> text]

Sessions ==
    { Session("none",    "none",                   250, "ok"),
      Session("none",    "none",                   251, "fwd"),
      Session("none",    "none",                   450, "grey"),
      Session("none",    "none",                   550, "nouser"),
      Session("connect", "SMTPConnectError",       0,   "err"),
      Session("connect", "timeout",                0,   "err"),
      Session("connect", "OSError",                0,   "err"),
      Session("helo",    "SMTPServerDisconnected", 0,   "err"),
      Session("mail",    "timeout",                0,   "err"),
      Session("rcpt",    "SMTPServerDisconnected", 0,   "err"),
      Session("quit",    "SMTPServerDisconnected", 250, "err"),
      Session("quit",    "SMTPServerDisconnected", 550, "err"),
      Session("decode",  "UnicodeDecodeError",     250, "err"),
      Session("rcpt",    "UnicodeEncodeError",     0,   "enc") }

\* characters outside ASCII (one token stands for u-umlaut)
NonAsciiChars == { "u:" }

IsAscii(s) == \A k \in 1..Len(s) : s[k] \notin NonAsciiChars

\* smtplib encodes every command as ASCII before it sends it: the RCPT
\* command of an address with a character outside ASCII raises
\* UnicodeEncodeError and is not sent, and no other address raises it
SessionPossible(email, session) ==
    IF IsAscii(email)
    THEN session.exc # "UnicodeEncodeError"
    ELSE session.fail_at \in {"rcpt", "quit", "decode", "none"}
             => session.exc = "UnicodeEncodeError"

\* the commands a session puts on the wire (lines 117-122)
SessionCommands(session) ==
    IF session.fail_at = "connect" THEN <<>>
    ELSE IF session.fail_at = "helo" THEN <<"HELO">>
    ELSE IF session.fail_at = "mail" THEN <<"HELO", "MAIL">>
    ELSE IF session.fail_at = "rcpt"
    THEN (IF session.exc = "UnicodeEncodeError" THEN <<"HELO", "MAIL">>
          ELSE <<"HELO", "MAIL", "RCPT">>)
    ELSE <<"HELO", "MAIL", "RCPT", "QUIT">>

\* the connection when verify_email_smtp returns: "none" when connect() did
\* not establish one, "closed" after quit() (line 122) or after smtplib
\* closed it on an I/O failure, "unclosed" when a call raised without an
\* I/O failure: no except clause (lines 131-138) closes it and there is no
\* finally
SocketAfter(session) ==
    IF session.fail_at = "connect" THEN "none"
    ELSE IF session.exc = "UnicodeEncodeError" THEN "unclosed"
    ELSE "closed"

\* an unclosed connection is left to the interpreter: its finalizer closes
\* it when the last reference goes (at the return, under reference
\* counting) or it stays open until some later collection
OpenAfter(session) ==
    IF SocketAfter(session) = "unclosed" THEN {0, 1} ELSE {0}

Message(kind, code, text) == [kind |-> kind, code |-> code, text |-> text]

\* the except clauses, in the order the code lists them
\* (raised: the exception leaves verify_email_smtp; the last clause catches
\* every Exception, so the code never does)
ProbeResult(verified, message) ==
    [raised |-> FALSE, verified |-> verified, message |-> message]

\* variant: a timeout is taken for a rejection
ExceptResultTimeoutRejects(exc, err) ==
    IF exc = "SMTPConnectError"
    THEN ProbeResult("None", Message("Connection failed", 0, err))
    ELSE IF exc = "SMTPServerDisconnected"
    THEN ProbeResult("None", Message("Server disconnected", 0, ""))
    ELSE IF exc = "timeout"
    THEN ProbeResult("False", Message("Connection timeout (port 25 may be blocked)", 0, ""))
    ELSE ProbeResult("None", Message("Verification error", 0, err))

\* variant: no catch-all clause, any other exception leaves the function
ExceptResultNoCatchAll(exc, err) ==
    IF exc = "SMTPConnectError"
    THEN ProbeResult("None", Message("Connection failed", 0, err))
    ELSE IF exc = "SMTPServerDisconnected"
    THEN ProbeResult("None", Message("Server disconnected", 0, ""))
    ELSE IF exc = "timeout"
    THEN ProbeResult("None", Message("Connection timeout (port 25 may be blocked)", 0, ""))
    ELSE [raised |-> TRUE, verified |-> "None", message |-> Message("", 0, "")]

ExceptResult(exc, err) ==
    IF exc = "SMTPConnectError"
    THEN ProbeResult("None", Message("Connection failed", 0, err))
    ELSE IF exc = "SMTPServerDisconnected"
    THEN ProbeResult("None", Message("Server disconnected", 0, ""))
    ELSE IF exc = "timeout"
    THEN ProbeResult("None", Message("Connection timeout (port 25 may be blocked)", 0, ""))
    ELSE ProbeResult("None", Message("Verification error", 0, err))

\* variant: every 2xx reply code counts as acceptance
ReplyResultAny2xx(code, text) ==
    IF code \in 200..299
    THEN ProbeResult("True", Message("SMTP verified", 0, text))
    ELSE IF code = 550
    THEN ProbeResult("False", Message("Email does not exist", 0, text))
    ELSE ProbeResult("None", Message("Inconclusive", code, text))

\* the branch on the RCPT reply code, reached when no call raised
ReplyResult(code, text) ==
    IF code = 250
    THEN ProbeResult("True", Message("SMTP verified", 0, text))
    ELSE IF code = 550
    THEN ProbeResult("False", Message("Email does not exist", 0, text))
    ELSE ProbeResult("None", Message("Inconclusive", code, text))

\* verify_email_smtp(email, mx_host) under one session -> (verified, message)
verify_email_smtp(email, mx_host, session) ==
    IF session.fail_at # "none"
    THEN ExceptResult(session.exc, session.text)
    ELSE ReplyResult(session.code, session.text)

\* ------------------------------------------------------ check_smtp_available

AvailabilityTimeout == 5

\* check_smtp_available(): outcome is what connect_ex did: "connected"
\* (returned 0), "refused" (returned an errno) or "raised" (an exception)
check_smtp_available(outcome) == outcome = "connected"

AvailabilityOutcomes == {"connected", "refused", "raised"}

\* ------------------------------------------------------------ the ranking

Reverse(s) == [k \in 1..Len(s) |-> s[Len(s) + 1 - k]]

B2N(b) == IF b THEN 1 ELSE 0

\* variant: the key is the confidence alone
SortKeyConfidenceOnly(c) == << 0, 0, c.confidence >>

\* variant: the key does not tell Unknown from Rejected
SortKeyNoUnknownRank(c) == << B2N(c.verified = "True"), 0, c.confidence >>

\* the sort key of line 217-221
SortKey(c) ==
    << B2N(c.verified = "True"),
       B2N(c.verified = "None" /\ c.verified # "False"),
       c.confidence >>

\* Python's tuple comparison a <= b
KeyLeq(a, b) ==
    \/ a[1] < b[1]
    \/ a[1] = b[1] /\ a[2] < b[2]
    \/ a[1] = b[1] /\ a[2] = b[2] /\ a[3] <= b[3]

\* a stable ascending sort by SortKey
InsertByKey(c, sorted) ==
    LET k == Cardinality({j \in 1..Len(sorted) : KeyLeq(SortKey(sorted[j]), SortKey(c))})
    IN  SubSeq(sorted, 1, k) \o <<c>> \o SubSeq(sorted, k + 1, Len(sorted))

RECURSIVE StableSortAsc(_)
StableSortAsc(cs) ==
    IF cs = <<>> THEN <<>>
    ELSE InsertByKey(cs[Len(cs)], StableSortAsc(SubSeq(cs, 1, Len(cs) - 1)))

\* list.sort(key=..., reverse=True): the list is reversed, sorted stably in
\* ascending order and reversed again, so equal keys keep their order
SortCandidates(cs) == Reverse(StableSortAsc(Reverse(cs)))

\* ----------------------------------------------------------- the inputs

NegVerifyDepth == 1
SmallVerify == 2
DefaultMaxVerify == 5
MaxMx == 4

Names ==
    { <<>>,
      <<"-">>,
      <<"j", "o">>,
      <<" ", "A", ".", " ", "x", "-", "y", " ", "B", " ">> }

Domains ==
    { <<>>,
      <<"x", ".", "i", "o">>,
      <<" ", "W", "W", "W", ".", "x", ".", "i", "o">>,
      <<"h", "t", "t", "p", ":", "/", "/", "x", ".", "i", "o", "/", "p">>,
      <<"H", "t", "t", "p", "s", ":", "/", "/", "w", "w", "w", ".", "x", ".", "i", "o">>,
      <<"h", "t", "t", "p", ":", "/", "/">>,
      <<"h", "t", "t", "p", "x", ".", "i", "o">>,
      <<"h", "t", "t", "p", ":", "x", ".", "i", "o">> }

MaxVerifyValues == ((0 - NegVerifyDepth)..SmallVerify) \cup {DefaultMaxVerify}

\* the MX records of the zone, in the order the DNS reply lists them
MxPool ==
    << [preference |-> 20, exchange |-> <<"m", "2", ".">>],
       [preference |-> 10, exchange |-> <<"m", "1", ".">>],
       [preference |-> 10, exchange |-> <<"m", "3">>],
       [preference |-> 30, exchange |-> <<"m", "4", ".">>],
       [preference |-> 5,  exchange |-> <<"m", "5", ".">>],
       [preference |-> 40, exchange |-> <<"m", "6", ".">>] >>

MxAnswers ==
    { [error |-> TRUE, records |-> <<>>] }
    \cup { [error |-> FALSE, records |-> SubSeq(MxPool, 1, n)] :
             n \in 1..(IF MaxMx < Len(MxPool) THEN MaxMx ELSE Len(MxPool)) }

\* ---------------------------------------------------------- discover_email

VARIABLES
    pc,                     \* position in discover_email
    name, domain,           \* arguments (domain is reassigned by the code)
    verify_smtp, max_verify,
    first, last,
    candidates,
    generated,              \* history: the list generate_email_patterns returned
    mx_records, has_mx,
    smtp_available,
    mx_host,
    i,                      \* index of the probe loop
    socket_default_timeout, \* process-wide socket default timeout, <<>> = None
    net,                    \* the network operations performed, in order
    open_sockets,           \* SMTP connections opened by a probe and not closed
    result                  \* what the call returned or raised

\* scrape_with_retry (homeharvest_lookup.py)
VARIABLES
    rpc,                    \* position in scrape_with_retry
    max_retries,            \* argument
    retries, last_error,    \* the locals of the same names
    worker,                 \* the executor's worker thread of the current attempt
    log,                    \* attempts started and waits slept, in order
    rresult                 \* what scrape_with_retry returned or raised

email_vars == <<pc, name, domain, verify_smtp, max_verify, first, last, candidates,
                generated, mx_records, has_mx, smtp_available, mx_host, i,
                socket_default_timeout, net, open_sockets, result>>

retry_vars == <<rpc, max_retries, retries, last_error, worker, log, rresult>>

vars == <<email_vars, retry_vars>>

NoResult == [kind |-> "none"]

NetOp(op, target, host) == [op |-> op, target |-> target, host |-> host]

\* len(candidates[:max_verify])
SliceLen(n, k) ==
    IF k >= 0 THEN (IF k < n THEN k ELSE n)
    ELSE (IF n + k > 0 THEN n + k ELSE 0)

Min(a, b) == IF a < b THEN a ELSE b
Max(a, b) == IF a > b THEN a ELSE b

\* scrape_with_retry has not been called
RetryIdle ==
    /\ rpc = "Idle"
    /\ max_retries = 0
    /\ retries = 0
    /\ last_error = [class |-> "None", text |-> <<>>]
    /\ worker = "none"
    /\ log = <<>>
    /\ rresult = NoResult

Init ==
    /\ pc = "Init"
    /\ name \in Names
    /\ domain \in Domains
    /\ verify_smtp \in BOOLEAN
    /\ max_verify \in MaxVerifyValues
    /\ first = <<>>
    /\ last = <<>>
    /\ candidates = <<>>
    /\ generated = <<>>
    /\ mx_records = <<>>
    /\ has_mx = FALSE
    /\ smtp_available = FALSE
    /\ mx_host = <<>>
    /\ i = 0
    /\ socket_default_timeout = <<>>
    /\ net = <<>>
    /\ open_sockets = 0
    /\ result = NoResult
    /\ RetryIdle

Failure(error, n, d) ==
    [kind |-> "failure", success |-> FALSE, error |-> error, name |-> n, domain |-> d]

\* lines 171-179
NormalizeName ==
    /\ pc = "Init"
    /\ LET n == normalize_name(name)
       IN  /\ first' = n.first
           /\ last' = n.last
           /\ IF n.first = <<>>
              THEN /\ pc' = "NoName"
                   /\ result' = Failure("Could not extract first name from input",
                                        name, domain)
              ELSE /\ pc' = "Normalized"
                   /\ UNCHANGED result
    /\ UNCHANGED <<name, domain, verify_smtp, max_verify, candidates, generated, mx_records,
                   has_mx, smtp_available, mx_host, i, socket_default_timeout, net>>
    /\ UNCHANGED <<open_sockets, retry_vars>>

\* lines 181-185
NormalizeDomain ==
    /\ pc = "Normalized"
    /\ LET c == CleanDomain(domain)
       IN  /\ domain' = c.domain
           /\ IF c.raised
              THEN /\ pc' = "Raised"
                   /\ result' = [kind |-> "exception", exc |-> "IndexError"]
              ELSE /\ pc' = "DomainCleaned"
                   /\ UNCHANGED result
    /\ UNCHANGED <<name, verify_smtp, max_verify, first, last, candidates, generated, mx_records,
                   has_mx, smtp_available, mx_host, i, socket_default_timeout, net>>
    /\ UNCHANGED <<open_sockets, retry_vars>>

\* variant: the MX lookup is made before the candidate list is tested
GeneratePatternsAfterMx ==
    /\ pc = "DomainCleaned"
    /\ candidates' = generate_email_patterns(first, last, domain)
    /\ generated' = candidates'
    /\ net' = Append(net, NetOp("mx", domain, <<>>))
    /\ IF candidates' = <<>>
       THEN /\ pc' = "NoPatterns"
            /\ result' = Failure("Could not generate email patterns", name, domain)
       ELSE /\ pc' = "PatternsGenerated"
            /\ UNCHANGED result
    /\ UNCHANGED <<name, domain, verify_smtp, max_verify, first, last, mx_records,
                   has_mx, smtp_available, mx_host, i, socket_default_timeout>>
    /\ UNCHANGED <<open_sockets, retry_vars>>

\* lines 187-195
GeneratePatterns ==
    /\ pc = "DomainCleaned"
    /\ candidates' = generate_email_patterns(first, last, domain)
    /\ generated' = candidates'
    /\ IF candidates' = <<>>
       THEN /\ pc' = "NoPatterns"
            /\ result' = Failure("Could not generate email patterns", name, domain)
       ELSE /\ pc' = "PatternsGenerated"
            /\ UNCHANGED result
    /\ UNCHANGED <<name, domain, verify_smtp, max_verify, first, last, mx_records,
                   has_mx, smtp_available, mx_host, i, socket_default_timeout, net>>
    /\ UNCHANGED <<open_sockets, retry_vars>>

\* lines 197-198
ResolveMx ==
    /\ pc = "PatternsGenerated"
    /\ \E answer \in MxAnswers :
          /\ mx_records' = get_mx_records(answer)
          /\ has_mx' = (Len(mx_records') > 0)
    /\ net' = Append(net, NetOp("mx", domain, <<>>))
    /\ pc' = "MxResolved"
    /\ UNCHANGED <<name, domain, verify_smtp, max_verify, first, last, candidates,
                   generated, smtp_available, mx_host, i, socket_default_timeout, result>>
    /\ UNCHANGED <<open_sockets, retry_vars>>

\* variant: the branch forgets the availability check
AfterAvailabilityPortIgnored(avail) ==
    IF verify_smtp /\ mx_records # <<>>
    THEN /\ mx_host' = mx_records[1]
         /\ pc' = IF SliceLen(Len(candidates), max_verify) > 0
                  THEN "Probing" ELSE "ProbeDone"
    ELSE /\ mx_host' = mx_host
         /\ pc' = "ProbeSkipped"

\* the branch of line 204, taken with the value smtp_available has there
AfterAvailability(avail) ==
    IF verify_smtp /\ avail /\ mx_records # <<>>
    THEN /\ mx_host' = mx_records[1]
         /\ pc' = IF SliceLen(Len(candidates), max_verify) > 0
                  THEN "Probing" ELSE "ProbeDone"
    ELSE /\ mx_host' = mx_host
         /\ pc' = "ProbeSkipped"

\* lines 200-205 when the availability check runs
CheckAvailability ==
    /\ pc = "MxResolved"
    /\ verify_smtp /\ has_mx
    /\ \E outcome \in AvailabilityOutcomes :
          /\ smtp_available' = check_smtp_available(outcome)
          /\ AfterAvailability(smtp_available')
    /\ socket_default_timeout' = <<AvailabilityTimeout>>
    /\ net' = Append(net, NetOp("avail", <<>>, <<>>))
    /\ i' = 0
    /\ UNCHANGED <<name, domain, verify_smtp, max_verify, first, last, candidates,
                   generated, mx_records, has_mx, result>>
    /\ UNCHANGED <<open_sockets, retry_vars>>

\* lines 200-204 when it does not
SkipAvailability ==
    /\ pc = "MxResolved"
    /\ ~(verify_smtp /\ has_mx)
    /\ smtp_available' = FALSE
    /\ AfterAvailability(FALSE)
    /\ UNCHANGED <<name, domain, verify_smtp, max_verify, first, last, candidates,
                   generated, mx_records, has_mx, i, socket_default_timeout, net, result>>
    /\ UNCHANGED <<open_sockets, retry_vars>>

\* variant: the adjustments are not clamped
ApplyProbeUnclamped(c, r) ==
    [c EXCEPT !.verified = r.verified,
              !.verification_message = r.message,
              !.confidence = IF r.verified = "True" THEN c.confidence + 10
                             ELSE IF r.verified = "False" THEN c.confidence - 30
                             ELSE c.confidence]

\* lines 208-215: what one probe result does to its candidate
ApplyProbe(c, r) ==
    [c EXCEPT !.verified = r.verified,
              !.verification_message = r.message,
              !.confidence = IF r.verified = "True" THEN Min(100, c.confidence + 10)
                             ELSE IF r.verified = "False" THEN Max(0, c.confidence - 30)
                             ELSE c.confidence]

\* variant: no break on an accepted candidate
LoopContinuesNoBreak(k, r) == k < SliceLen(Len(candidates), max_verify)

\* whether the loop of line 206 runs another iteration after candidate k
\* (1-based) got result r
LoopContinues(k, r) ==
    r.verified # "True" /\ k < SliceLen(Len(candidates), max_verify)

\* variant: an inconclusive probe is retried
NextProbeIndexRetryUnknown(k, r) == IF r.verified = "None" THEN k ELSE k + 1

\* enumerate(): the loop moves on to the next candidate whatever the result
NextProbeIndex(k, r) == k + 1

\* variant: the availability check is made again for every candidate
ProbeOpsCheckEach(email) ==
    <<NetOp("avail", <<>>, <<>>), NetOp("probe", email, mx_host)>>

\* the network operations of one iteration of the loop: the probe of line
\* 207 and nothing else
ProbeOps(email) == <<NetOp("probe", email, mx_host)>>

\* lines 206-215: one iteration of the probe loop, the SMTP session being
\* `session`
ProbeWith(session) ==
    /\ pc = "Probing"
    /\ i < SliceLen(Len(candidates), max_verify)
    /\ SessionPossible(candidates[i + 1].email, session)
    /\ \E left \in OpenAfter(session) : open_sockets' = open_sockets + left
    /\ LET c == candidates[i + 1]
           r == verify_email_smtp(c.email, mx_host, session)
       IN  /\ net' = net \o ProbeOps(c.email)
           /\ IF r.raised
              THEN /\ pc' = "Raised"
                   /\ result' = [kind |-> "exception", exc |-> session.exc]
                   /\ UNCHANGED <<candidates, i>>
              ELSE /\ candidates' = [candidates EXCEPT ![i + 1] = ApplyProbe(c, r)]
                   /\ pc' = IF LoopContinues(i + 1, r) THEN "Probing" ELSE "ProbeDone"
                   /\ i' = NextProbeIndex(i, r)
                   /\ UNCHANGED result
    /\ UNCHANGED <<name, domain, verify_smtp, max_verify, first, last, generated,
                   mx_records, has_mx, smtp_available, mx_host, socket_default_timeout>>
    /\ UNCHANGED retry_vars

Probe == \E session \in Sessions : ProbeWith(session)

\* variant: the report lists every resolved host
ReportAllMx(cs) ==
    [kind |-> "report", success |-> TRUE, name |-> name, firstName |-> first,
     lastName |-> last, domain |-> domain, hasMxRecords |-> has_mx,
     mxRecords |-> mx_records,
     smtpAvailable |-> smtp_available,
     bestMatch |-> IF cs # <<>> THEN <<cs[1]>> ELSE <<>>,
     verifiedEmails |-> SelectSeq(cs, LAMBDA c : c.verified = "True"),
     allCandidates |-> cs,
     candidateCount |-> Len(cs)]

\* lines 226-239
Report(cs) ==
    [kind |-> "report", success |-> TRUE, name |-> name, firstName |-> first,
     lastName |-> last, domain |-> domain, hasMxRecords |-> has_mx,
     mxRecords |-> SubSeq(mx_records, 1, Min(3, Len(mx_records))),
     smtpAvailable |-> smtp_available,
     bestMatch |-> IF cs # <<>> THEN <<cs[1]>> ELSE <<>>,
     verifiedEmails |-> SelectSeq(cs, LAMBDA c : c.verified = "True"),
     allCandidates |-> cs,
     candidateCount |-> Len(cs)]

\* lines 217-239: sort in place, assemble the report, return
RankAndReport ==
    /\ pc \in {"ProbeSkipped", "ProbeDone"}
    /\ LET ranked == SortCandidates(candidates)
       IN  /\ candidates' = ranked
           /\ result' = Report(ranked)
    /\ pc' = "Done"
    /\ UNCHANGED <<name, domain, verify_smtp, max_verify, first, last, generated,
                   mx_records, has_mx, smtp_available, mx_host, i, socket_default_timeout, net>>
    /\ UNCHANGED <<open_sockets, retry_vars>>

Next ==
    \/ NormalizeName
    \/ NormalizeDomain
    \/ GeneratePatterns
    \/ ResolveMx
    \/ CheckAvailability
    \/ SkipAvailability
    \/ Probe
    \/ RankAndReport

Spec == Init /\ [][Next]_vars

\* a second set of inputs: whole names, one-letter names, tokens made of
\* hyphens only, and domains with an '@' or a character outside ASCII
WideVerify == 2

WideNames ==
    { <<"J", "o", "h", "n", " ", "S", "m", "i", "t", "h">>,
      <<"J", "a", "n", "e", " ", "D", "o", "e">>,
      <<"j", "o", "h", "n">>,
      <<"a", " ", "b">>,
      <<"j", " ", "j">>,
      <<"-", " ", "s", "m", "i", "t", "h">>,
      <<"s", "m", "i", "t", "h", " ", "-">>,
      <<"-", " ", "-">>,
      <<>> }

WideDomains ==
    { <<"a", "c", "m", "e", ".", "c", "o", "m">>,
      <<"e", "x", "a", "m", "p", "l", "e", ".", "c", "o", "m">>,
      <<"a", "@", "b", ".", "i", "o">>,
      <<"u:", ".", "i", "o">>,
      <<>> }

WideInit ==
    /\ pc = "Init"
    /\ name \in WideNames
    /\ domain \in WideDomains
    /\ verify_smtp \in BOOLEAN
    /\ max_verify \in 0..WideVerify
    /\ first = <<>>
    /\ last = <<>>
    /\ candidates = <<>>
    /\ generated = <<>>
    /\ mx_records = <<>>
    /\ has_mx = FALSE
    /\ smtp_available = FALSE
    /\ mx_host = <<>>
    /\ i = 0
    /\ socket_default_timeout = <<>>
    /\ net = <<>>
    /\ open_sockets = 0
    /\ result = NoResult
    /\ RetryIdle

WideSpec == WideInit /\ [][Next]_vars

\* ------------------------------------------------------------ vocabulary

\* the candidates in generation order, as the generator returned them
Gen == generated

\* the run is past pattern generation
Generated ==
    pc \in {"PatternsGenerated", "MxResolved", "Probing", "ProbeSkipped",
            "ProbeDone", "Done"}

\* the SMTP probes made so far, in order
Probes == SelectSeq(net, LAMBDA n : n.op = "probe")

\* the candidate that holds address e
CandOf(e) == candidates[CHOOSE k \in 1..Len(candidates) : candidates[k].email = e]

\* position of address e in generation order
GenPos(e) == CHOOSE k \in 1..Len(Gen) : Gen[k].email = e

ProbeCount(e) == Cardinality({k \in 1..Len(Probes) : Probes[k].target = e})

\* ------------------------------------------------------------------- C1

\* C1: once a probe is Accepted no further candidate is probed: if the k-th
\* candidate is the accepted one, it is the k-th and last probe of the run
\* (exactly k probes), and every candidate generated after it is still as
\* generated: Unknown, empty message, base confidence.
C1_ShortCircuit ==
    Generated =>
        \A k \in 1..Len(Gen) :
            CandOf(Gen[k].email).verified = "True" =>
                /\ Len(Probes) = k
                /\ Probes[k].target = Gen[k].email
                /\ \A j \in (k + 1)..Len(Gen) : CandOf(Gen[j].email) = Gen[j]

\* the server accepted the 2nd probed candidate of a run allowed 5 probes
C1_Witness ==
    /\ pc = "Done"
    /\ max_verify = DefaultMaxVerify
    /\ Len(Gen) > DefaultMaxVerify
    /\ Len(Probes) = 2
    /\ CandOf(Probes[2].target).verified = "True"

\* ------------------------------------------------------------------- C2

\* C2: a probe is made only if verification was requested, the MX lookup
\* returned a host and the availability check reported the port usable; in
\* a finished run where one of the three is false no probe was made, every
\* candidate is Unknown, verifiedEmails is empty and bestMatch is the first
\* generated candidate, which has the highest base confidence.
C2_ProbeOnlyIfAllThree ==
    LET all3 == verify_smtp /\ has_mx /\ smtp_available IN
    /\ Probes # <<>> =>
          /\ all3
          /\ mx_records # <<>>
          /\ \E k \in 1..Len(net) : net[k].op = "avail"
    /\ (pc = "Done" /\ ~all3) =>
          /\ Probes = <<>>
          /\ \A k \in 1..Len(candidates) : candidates[k].verified = "None"
          /\ result.verifiedEmails = <<>>
          /\ result.bestMatch = <<Gen[1]>>
          /\ \A k \in 1..Len(Gen) : Gen[k].confidence <= Gen[1].confidence

\* verification requested for a domain without MX records
C2_Witness ==
    /\ pc = "Done"
    /\ verify_smtp
    /\ ~has_mx
    /\ max_verify > 0
    /\ Len(result.allCandidates) > 1

\* ------------------------------------------------------------------- C3

StateRank(c) ==
    IF c.verified = "True" THEN 2 ELSE IF c.verified = "None" THEN 1 ELSE 0

\* a comes strictly before b in the ranking order
RankedBefore(a, b) ==
    \/ StateRank(a) > StateRank(b)
    \/ StateRank(a) = StateRank(b) /\ a.confidence > b.confidence
    \/ /\ StateRank(a) = StateRank(b)
       /\ a.confidence = b.confidence
       /\ GenPos(a.email) < GenPos(b.email)

\* C3: the ranked list of a report is the generation-order list sorted
\* stably by state (Accepted, then Unknown, then Rejected) and then by
\* descending confidence: the same candidates, each pair in ranking order.
C3_RankedIsStableSort ==
    pc = "Done" =>
        LET r == result.allCandidates IN
        /\ Len(r) = Len(Gen)
        /\ \A k \in 1..Len(Gen) : \E j \in 1..Len(r) : r[j].email = Gen[k].email
        /\ \A a, b \in 1..Len(r) : a < b => RankedBefore(r[a], r[b])

\* a report holding all three states whose order is not the generation order
C3_Witness ==
    /\ pc = "Done"
    /\ \E a, b, c \in 1..Len(candidates) :
          /\ candidates[a].verified = "True"
          /\ candidates[b].verified = "None"
          /\ candidates[c].verified = "False"
          /\ GenPos(candidates[c].email) < GenPos(candidates[a].email)
          /\ candidates[c].confidence > candidates[b].confidence

\* ------------------------------------------------------------------- C4

BaseConfidence(e) == Gen[GenPos(e)].confidence

\* C4: every candidate's confidence is in 0..100: min(100, base + 10) when
\* Accepted, max(0, base - 30) when Rejected, the base confidence when
\* Unknown; and no candidate is probed (hence adjusted) more than once.
C4_ConfidenceClamped ==
    Generated =>
        \A k \in 1..Len(candidates) :
            LET c == candidates[k]
                b == BaseConfidence(c.email)
            IN  /\ c.confidence \in 0..100
                /\ c.verified = "True"  => c.confidence = Min(100, b + 10)
                /\ c.verified = "False" => c.confidence = Max(0, b - 30)
                /\ c.verified = "None"  => c.confidence = b
                /\ ProbeCount(c.email) <= 1

\* the 95-point candidate was accepted: 95 + 10 is clamped to 100
C4_Witness ==
    /\ Generated
    /\ \E k \in 1..Len(candidates) :
          /\ candidates[k].verified = "True"
          /\ BaseConfidence(candidates[k].email) = 95
          /\ candidates[k].confidence = 100

\* ------------------------------------------------------------------- C5

\* the session ran to its end and the reply code to RCPT was `code`
Replied(s, code) == s.fail_at = "none" /\ s.code = code

\* C5 as stated: a 2xx reply to RCPT (250, 251, 252, ...) makes the probe
\* outcome Accepted, the message carrying the server's text.
C5_Any2xxAccepted ==
    [][\A s \in Sessions :
          (ProbeWith(s) /\ s.fail_at = "none" /\ s.code \in 200..299) =>
              /\ candidates'[i + 1].verified = "True"
              /\ candidates'[i + 1].verification_message.text = s.text]_vars

\* C5 amended: the outcome of a probe is Accepted exactly when the session
\* ran to its end with reply code 250, and the message then carries the
\* server's text; any other 2xx code gives Unknown, "Inconclusive" with the
\* code and the text.
C5_AcceptedIff250 ==
    [][\A s \in Sessions :
          ProbeWith(s) =>
              LET c == candidates'[i + 1] IN
              /\ c.verified = "True" <=> Replied(s, 250)
              /\ Replied(s, 250) =>
                    c.verification_message = Message("SMTP verified", 0, s.text)
              /\ (s.fail_at = "none" /\ s.code \in 200..299 /\ s.code # 250) =>
                    /\ c.verified = "None"
                    /\ c.verification_message = Message("Inconclusive", s.code, s.text)]_vars

\* one run saw a 251 reply (left Unknown) and then a 250 reply (Accepted)
C5_Witness ==
    \E a, b \in 1..Len(candidates) :
        /\ candidates[a].verification_message = Message("Inconclusive", 251, "fwd")
        /\ candidates[a].verified = "None"
        /\ candidates[b].verification_message = Message("SMTP verified", 0, "ok")
        /\ candidates[b].verified = "True"

\* ------------------------------------------------------------------- C6

\* C6: a probe makes its candidate Rejected (confidence less 30, not below
\* 0) only on a 550 reply; a failed connection, a disconnect, a timeout, any
\* other exception and any reply code other than 250 and 550 leave it
\* Unknown with its confidence unchanged, and the loop goes on to the next
\* candidate of the slice.
C6_UnknownNeverRejects ==
    [][\A s \in Sessions :
          ProbeWith(s) =>
              LET old == candidates[i + 1]
                  new == candidates'[i + 1]
              IN  /\ new.verified = "False" => s.code = 550
                  /\ new.verified = "False" <=> Replied(s, 550)
                  /\ Replied(s, 550) => new.confidence = Max(0, old.confidence - 30)
                  /\ (~Replied(s, 550) /\ ~Replied(s, 250)) =>
                        /\ new.verified = "None"
                        /\ new.confidence = old.confidence
                        /\ pc' # "Raised"
                        /\ i' = i + 1
                        /\ (i + 1 < SliceLen(Len(candidates), max_verify)) =>
                              pc' = "Probing"]_vars

\* the first probe timed out, its candidate kept its confidence, and the
\* second candidate was probed (and rejected)
C6_Witness ==
    /\ pc = "Probing"
    /\ Len(Probes) = 2
    /\ LET c1 == CandOf(Probes[1].target)
           c2 == CandOf(Probes[2].target)
       IN  /\ c1.verification_message.kind = "Connection timeout (port 25 may be blocked)"
           /\ c1.verified = "None"
           /\ c1.confidence = BaseConfidence(c1.email)
           /\ c2.verified = "False"
           /\ c2.confidence = BaseConfidence(c2.email) - 30

\* ------------------------------------------------------------------- C7

Terminal == pc \in {"NoName", "NoPatterns", "Raised", "Done"}

\* C7: whatever the name and the domain, no exception leaves
\* discover_email: the call returns the failure structure exactly when the
\* first name is empty or no pattern was generated, a report otherwise.
C7_InputErrorsReturned ==
    /\ result.kind # "exception"
    /\ Terminal =>
          /\ result.kind \in {"failure", "report"}
          /\ result.kind = "failure" <=> pc \in {"NoName", "NoPatterns"}
          /\ pc = "NoName" <=> normalize_name(name).first = <<>>

\* ------------------------------------------------------------------- C8

\* the steps of the run that use the network
NetworkStep == ResolveMx \/ CheckAvailability \/ SkipAvailability \/ Probe

\* C8: no failure of the network stage aborts a run: an exception leaves
\* the call only before any network operation; past pattern generation a
\* network step can always be taken, whatever the network does, until the
\* ranking is due; the ranking keeps every candidate; and a run that is
\* Done has returned success with every generated candidate in the list.
C8_NetworkFailuresNeverAbort ==
    /\ pc = "Raised" => net = <<>>
    /\ pc \in {"PatternsGenerated", "MxResolved", "Probing"} => ENABLED NetworkStep
    /\ pc \in {"ProbeSkipped", "ProbeDone"} =>
          Len(SortCandidates(candidates)) = Len(Gen)
    /\ pc = "Done" =>
          /\ result.kind = "report"
          /\ result.success
          /\ result.candidateCount = Len(Gen)
          /\ Len(result.allCandidates) = Len(Gen)
          /\ \A k \in 1..Len(Gen) :
                \E j \in 1..Len(result.allCandidates) :
                    result.allCandidates[j].email = Gen[k].email

ProbeMessageKinds == {candidates[k].verification_message.kind : k \in 1..Len(candidates)}

\* a finished run whose probes met a failed connection, a disconnect, a
\* timeout, another exception and an unexpected reply code
C8_Witness ==
    /\ pc = "Done"
    /\ result.success
    /\ {"Connection failed", "Server disconnected", "Verification error",
        "Connection timeout (port 25 may be blocked)", "Inconclusive"}
          \subseteq ProbeMessageKinds

\* ------------------------------------------------------------------- C9

\* C9: for every max_verify, negative ones included, the probes of a run
\* go to a prefix of the generation-order list, in that order, at most
\* max_verify of them (none when max_verify <= 0), all to the first MX host.
C9_ProbesWithinCap ==
    Generated =>
        /\ Len(Probes) <= Max(0, max_verify)
        /\ Len(Probes) <= Len(Gen)
        /\ \A k \in 1..Len(Probes) :
              /\ Probes[k].target = Gen[k].email
              /\ Probes[k].host = mx_records[1]

\* ------------------------------------------------------------------ C10

\* C10: a candidate is probed at most once in a run; its state is Unknown
\* when generated, and once it is Accepted or Rejected no step changes it.
C10_StateChangesOnce ==
    [][LET probes2 == SelectSeq(net', LAMBDA n : n.op = "probe") IN
       \A k \in 1..Len(candidates') :
           LET c2 == candidates'[k] IN
           /\ Cardinality({j \in 1..Len(probes2) : probes2[j].target = c2.email}) <= 1
           /\ candidates = <<>> => c2.verified = "None"
           /\ \A j \in 1..Len(candidates) :
                 (candidates[j].email = c2.email /\ candidates[j].verified # "None")
                     => c2.verified = candidates[j].verified]_vars

\* a finished run in which a probe timed out, was not retried, and a later
\* candidate was rejected
C10_Witness ==
    /\ pc = "Done"
    /\ \E a, b \in 1..Len(candidates) :
          /\ candidates[a].verification_message.kind
                = "Connection timeout (port 25 may be blocked)"
          /\ candidates[a].verified = "None"
          /\ ProbeCount(candidates[a].email) = 1
          /\ candidates[b].verified = "False"
          /\ GenPos(candidates[a].email) < GenPos(candidates[b].email)

\* ------------------------------------------------------------------ C11

\* C11: every SMTP session a probe opens is closed within that probe
\* attempt whatever its outcome, so that no connection is open when the
\* next candidate is probed or when the run returns; and no session sends
\* a DATA command.
C11_SessionsClosed ==
    /\ open_sockets = 0
    /\ \A session \in Sessions : "DATA" \notin Range(SessionCommands(session))

\* ------------------------------------------------------------------ C12

\* C12: a run writes no state that another run or later code of the
\* process can read: the process-wide default socket timeout has, when the
\* run has ended, the value it had before the run.
C12_NoSharedState ==
    Terminal => socket_default_timeout = <<>>

\* ------------------------------------------------------------------ C13

\* the position of a step in the code of discover_email
PcRank(p) ==
    IF p = "Init" THEN 0
    ELSE IF p = "Normalized" THEN 1
    ELSE IF p = "DomainCleaned" THEN 2
    ELSE IF p = "PatternsGenerated" THEN 3
    ELSE IF p = "MxResolved" THEN 4
    ELSE IF p = "Probing" THEN 5
    ELSE IF p \in {"ProbeDone", "ProbeSkipped"} THEN 6
    ELSE 7

\* the network operations are MX resolution first and once, then at most
\* one availability check, then probes only
NetInOrder ==
    /\ \A k \in 1..Len(net) :
          /\ net[k].op = "mx" <=> k = 1
          /\ net[k].op = "avail" => k = 2
          /\ net[k].op = "probe" => (k >= 3 /\ net[2].op = "avail")
    /\ PcRank(pc) \in 4..6 \/ pc = "Done" => Len(net) >= 1
    /\ pc \in {"Probing", "ProbeDone"} => Len(net) >= 2

\* C13: within one run the network steps occur in a fixed forward order:
\* MX resolution exactly once, before the availability check and before any
\* probe; the availability check once per run, never once per candidate,
\* and before the first probe; no step is entered again after a later one
\* has started (the probe loop alone repeats, on the next candidate).
C13_ForwardOrder ==
    /\ [](NetInOrder)
    /\ [][\/ PcRank(pc') > PcRank(pc)
          \/ (pc = "Probing" /\ pc' = "Probing" /\ i' = i + 1)]_vars

\* a finished run that resolved MX, checked availability and probed three
\* candidates
C13_Witness ==
    /\ pc = "Done"
    /\ Len(net) = 5
    /\ net[1].op = "mx" /\ net[2].op = "avail"
    /\ \A k \in 3..5 : net[k].op = "probe"

\* ------------------------------------------------------------------ C14

JohnSmithAcme ==
    /\ first = <<"j", "o", "h", "n">>
    /\ last = <<"s", "m", "i", "t", "h">>
    /\ domain = <<"a", "c", "m", "e", ".", "c", "o", "m">>

JaneDoeExample ==
    /\ name = <<"J", "a", "n", "e", " ", "D", "o", "e">>
    /\ domain = <<"e", "x", "a", "m", "p", "l", "e", ".", "c", "o", "m">>

\* the generator's list for john, smith, acme.com has n candidates, all
\* lower-cased, john.smith@acme.com first at confidence 95; with an empty
\* last name the list is the single candidate first@domain, "firstname",
\* 60; the report for Jane Doe at example.com lists n candidates
GeneratorYields(n) ==
    /\ (Generated /\ JohnSmithAcme) =>
          /\ Len(Gen) = n
          /\ \A k \in 1..n : Gen[k].email = Lower(Gen[k].email)
          /\ Gen[1].email = <<"j", "o", "h", "n", ".", "s", "m", "i", "t", "h", "@", "a", "c", "m", "e", ".", "c", "o", "m">>
          /\ Gen[1].confidence = 95
    /\ (Generated /\ last = <<>>) =>
          Gen = <<EmailCandidate(first \o <<"@">> \o domain, "firstname", 60)>>
    /\ (pc = "Done" /\ JaneDoeExample) =>
          Len(result.allCandidates) = n

\* C14 as stated: for john, smith and acme.com the generator yields exactly
\* 9 candidates, john.smith@acme.com first at confidence 95; for an empty
\* last name exactly one candidate; a run for Jane Doe at example.com
\* reports allCandidates of length 9.
C14_NineCandidates == GeneratorYields(9)

\* C14: the same with the number the template list gives, 10: the nine
\* addresses of the catalog and js@acme.com (pattern "fl", confidence 50).
C14_TenCandidates ==
    /\ GeneratorYields(10)
    /\ (Generated /\ JohnSmithAcme) =>
          /\ Gen[10].email = <<"j", "s", "@", "a", "c", "m", "e", ".", "c", "o", "m">>
          /\ Gen[10].pattern = "fl"
          /\ Gen[10].confidence = 50

\* a finished run for Jane Doe at example.com, verification disabled
C14_Witness ==
    /\ pc = "Done"
    /\ JaneDoeExample
    /\ ~verify_smtp
    /\ result.candidateCount = 10

\* ------------------------------------------------------------------ C15

\* the catalog composed for the names and the domain of the run
Catalog == pattern_templates(first, last, domain)

\* the first catalog position that composes address e
FirstAt(e) ==
    CHOOSE j \in 1..Len(Catalog) :
        /\ Lower(Catalog[j][1]) = e
        /\ \A h \in 1..(j - 1) : Lower(Catalog[h][1]) # e

\* C15: for every first name, last name and domain, one-letter names
\* included, the generated candidates have pairwise distinct addresses and
\* non-increasing confidence; with a last name the list is the catalog, in
\* catalog order, restricted to the first occurrence of each address, and
\* the occurrence kept has the highest base confidence among the templates
\* that compose the address. (Stated where the generator has just returned:
\* no later step changes the list it returned.)
C15_FirstOccurrenceKept ==
    pc = "PatternsGenerated" =>
        /\ \A a, b \in 1..Len(Gen) : a # b => Gen[a].email # Gen[b].email
        /\ \A k \in 1..(Len(Gen) - 1) : Gen[k].confidence >= Gen[k + 1].confidence
        /\ last # <<>> =>
              /\ {Gen[k].email : k \in 1..Len(Gen)}
                    = {Lower(Catalog[j][1]) : j \in 1..Len(Catalog)}
              /\ \A k \in 1..Len(Gen) :
                    /\ Gen[k].pattern = Catalog[FirstAt(Gen[k].email)][2]
                    /\ Gen[k].confidence = Catalog[FirstAt(Gen[k].email)][3]
                    /\ \A j \in 1..Len(Catalog) :
                          Lower(Catalog[j][1]) = Gen[k].email
                              => Catalog[j][3] <= Gen[k].confidence
              /\ \A k \in 1..(Len(Gen) - 1) :
                    FirstAt(Gen[k].email) < FirstAt(Gen[k + 1].email)

\* one-letter names that are the same letter: ten templates, five addresses
C15_Witness ==
    /\ pc = "PatternsGenerated"
    /\ first = <<"j">> /\ last = <<"j">>
    /\ Len(Gen) = 5
    /\ Len(Catalog) = 10

\* ------------------------------------------------------------------ C16

\* str.count(c)
CountChar(s, c) == Cardinality({k \in 1..Len(s) : s[k] = c})

\* C16: for every name and every domain a run accepts, whatever characters
\* the domain contains, each candidate's address is lower-cased, contains
\* exactly one '@' and does not begin with '@'.
C16_OneAtSign ==
    Generated =>
        \A k \in 1..Len(candidates) :
            /\ candidates[k].email = Lower(candidates[k].email)
            /\ CountChar(candidates[k].email, "@") = 1
            /\ ~StartsWith(candidates[k].email, <<"@">>)

\* ------------------------------------------------------------------ C17

\* the whitespace-separated tokens that remain of the name after
\* lower-casing and the removal of the characters outside a-z, space, hyphen
NameTokens == SplitWs(KeepNameChars(Lower(Strip(name))))

\* C17: when two or more tokens remain of the name, normalize_name returns
\* a non-empty first name and a non-empty last name; when exactly one
\* remains the last name is empty; when none remains both are empty.
C17_TokensGiveNames ==
    pc # "Init" =>
        /\ Len(NameTokens) >= 2 => (first # <<>> /\ last # <<>>)
        /\ Len(NameTokens) = 1 => last = <<>>
        /\ Len(NameTokens) = 0 => (first = <<>> /\ last = <<>>)

\* ------------------------------------------------------------------ C18

\* the preference the zone gives to a resolved host
PrefOf(host) ==
    LET k == CHOOSE j \in 1..Len(MxPool) : RStripDot(MxPool[j].exchange) = host
    IN  MxPool[k].preference

\* the positions of the accepted candidates in a list
AcceptedAt(cs) == {k \in 1..Len(cs) : cs[k].verified = "True"}

\* C18: in every success report bestMatch is the rank-0 element of
\* allCandidates (no listed candidate has a greater sort key),
\* verifiedEmails is the sub-list of the Accepted candidates of
\* allCandidates, candidateCount is the length of allCandidates and the
\* number of generated candidates, hasMxRecords is true exactly when the MX
\* lookup returned a host, and mxRecords is the first at most 3 resolved
\* hosts in priority order.
C18_ReportFields ==
    (pc = "Done" /\ result.kind = "report") =>
        LET all == result.allCandidates
            ver == result.verifiedEmails
            mx  == result.mxRecords
        IN  /\ result.success
            /\ all # <<>>
            /\ result.bestMatch = <<all[1]>>
            /\ \A k \in 1..Len(all) : KeyLeq(SortKey(all[k]), SortKey(all[1]))
            /\ Len(ver) = Cardinality(AcceptedAt(all))
            /\ \A k \in 1..Len(ver) :
                  /\ ver[k].verified = "True"
                  /\ \E j \in AcceptedAt(all) :
                        /\ all[j] = ver[k]
                        /\ Cardinality({h \in AcceptedAt(all) : h < j}) = k - 1
            /\ result.candidateCount = Len(all)
            /\ Len(all) = Len(Gen)
            /\ {all[k].email : k \in 1..Len(all)} = {Gen[k].email : k \in 1..Len(Gen)}
            /\ result.hasMxRecords <=> (mx_records # <<>>)
            /\ Len(mx) = Min(3, Len(mx_records))
            /\ \A k \in 1..Len(mx) : mx[k] = mx_records[k]
            /\ \A j, k \in 1..Len(mx_records) :
                  j < k => PrefOf(mx_records[j]) <= PrefOf(mx_records[k])

\* a report with an accepted candidate and four resolved hosts, of which
\* it lists three
C18_Witness ==
    /\ pc = "Done"
    /\ result.kind = "report"
    /\ Len(result.verifiedEmails) = 1
    /\ Len(mx_records) = 4
    /\ Len(result.mxRecords) = 3
    /\ Len(result.allCandidates) > 1

\* ===================================================== homeharvest_lookup.py
\* ------------------------------------------------------- scrape_with_retry

SCRAPE_TIMEOUT_SECONDS == 20

\* the largest max_retries of a call (the callers pass 3)
MaxRetriesBound == 3

\* `sub in s`
Contains(s, sub) ==
    \E k \in 0..(Len(s) - Len(sub)) : SubSeq(s, k + 1, k + Len(sub)) = sub

\* an exception: its class and str(e)
Error(class, text) == [class |-> class, text |-> text]

NoError == Error("None", <<>>)

\* what scrape_property can raise in the worker thread
WorkerErrors ==
    { Error("TimeoutError", <<"t", "/", "o">>),
      Error("Exception", <<"H", "T", "T", "P", " ", "4", "2", "9">>),
      Error("Exception", <<"F", "o", "r", "b", "i", "d", "d", "e", "n">>),
      Error("Exception", <<"A", "u", "t", "h", "e", "n", "t", "i", "c", "a", "t", "i", "o", "n", " ", "f", "a", "i", "l", "e", "d">>),
      Error("Exception", <<"T", "o", "o", " ", "M", "a", "n", "y", " ", "R", "e", "q", "u", "e", "s", "t", "s">>),
      Error("ValueError", <<"b", "a", "d", " ", "a", "d", "d", "r", "e", "s", "s">>),
      Error("ConnectionError", <<"r", "e", "s", "e", "t">>) }

\* raised by scrape_with_timeout when future.result times out (line 35)
ScrapeTimedOut == Error("TimeoutError", <<"S", "c", "r", "a", "p", "e", " ", "t", "i", "m", "e", "d", " ", "o", "u", "t", " ", "a", "f", "t", "e", "r", " ", "2", "0", "s">>)

\* variant: every failure is taken for a rate limit
IsRateLimitAlways(e) == TRUE

\* the test of line 66 on str(e).lower()
IsRateLimit(e) ==
    LET error_str == Lower(e.text)
    IN  \/ Contains(error_str, <<"4", "2", "9">>)
        \/ Contains(error_str, <<"f", "o", "r", "b", "i", "d", "d", "e", "n">>)
        \/ Contains(error_str, <<"a", "u", "t", "h", "e", "n", "t", "i", "c", "a", "t", "i", "o", "n">>)
        \/ Contains(error_str, <<"t", "o", "o", " ", "m", "a", "n", "y">>)

\* the except clauses of lines 55-73: which failures are retried
Retryable(e) == e.class = "TimeoutError" \/ IsRateLimit(e)

\* wait_time = (2 ** retries) * 3
WaitTime(n) == (2 ^ n) * 3

LogEntry(ev, n, e) == [ev |-> ev, n |-> n, error |-> e]

\* lines 78-80: the error raised when the loop ends without a return
ExhaustedError(e) ==
    IF e.class = "TimeoutError"
    THEN Error("Exception", <<"R", "e", "a", "l", "t", "o", "r", ".", "c", "o", "m", " ", "i", "s", " ", "n", "o", "t", " ", "r", "e", "s", "p", "o", "n", "d", "i", "n", "g">>)
    ELSE IF e # NoError THEN e
    ELSE Error("Exception", <<"M", "a", "x", " ", "r", "e", "t", "r", "i", "e", "s", " ", "e", "x", "c", "e", "e", "d", "e", "d">>)

\* discover_email is not running
EmailIdle ==
    /\ pc = "Idle"
    /\ name = <<>>
    /\ domain = <<>>
    /\ verify_smtp = FALSE
    /\ max_verify = 0
    /\ first = <<>>
    /\ last = <<>>
    /\ candidates = <<>>
    /\ generated = <<>>
    /\ mx_records = <<>>
    /\ has_mx = FALSE
    /\ smtp_available = FALSE
    /\ mx_host = <<>>
    /\ i = 0
    /\ socket_default_timeout = <<>>
    /\ net = <<>>
    /\ open_sockets = 0
    /\ result = NoResult

\* lines 43-44
RetryInit ==
    /\ EmailIdle
    /\ rpc = "Loop"
    /\ max_retries \in 0..MaxRetriesBound
    /\ retries = 0
    /\ last_error = NoError
    /\ worker = "none"
    /\ log = <<>>
    /\ rresult = NoResult

\* the except clauses of lines 55-73 for an exception e that leaves
\* scrape_with_timeout: a timeout or a rate limit waits (time.sleep is part
\* of the step) and goes back to the loop test, anything else is re-raised
HandleFailure(e) ==
    IF Retryable(e)
    THEN /\ log' = log \o << LogEntry("failed", retries, e),
                            LogEntry("wait", WaitTime(retries), NoError) >>
         /\ retries' = retries + 1
         /\ last_error' = e
         /\ rpc' = "Loop"
         /\ UNCHANGED rresult
    ELSE /\ log' = Append(log, LogEntry("failed", retries, e))
         /\ last_error' = e
         /\ rresult' = [kind |-> "raised", error |-> e]
         /\ rpc' = "Raised"
         /\ UNCHANGED retries

\* line 46 true, lines 25-31: the executor starts scrape_property in its
\* worker thread; the call completes some day ("running") or never ("hung")
StartAttempt ==
    /\ rpc = "Loop"
    /\ retries < max_retries
    /\ worker' \in {"running", "hung"}
    /\ log' = Append(log, LogEntry("attempt", retries, NoError))
    /\ rpc' = "Awaiting"
    /\ UNCHANGED <<max_retries, retries, last_error, rresult>>
    /\ UNCHANGED email_vars

\* lines 33 and 48: the worker returns within the timeout and its value is
\* returned (the executor's shutdown finds the worker finished)
WorkerReturns ==
    /\ rpc = "Awaiting"
    /\ worker = "running"
    /\ worker' = "done"
    /\ log' = Append(log, LogEntry("returned", retries, NoError))
    /\ rresult' = [kind |-> "returned", value |-> "properties"]
    /\ rpc' = "Returned"
    /\ UNCHANGED <<max_retries, retries, last_error>>
    /\ UNCHANGED email_vars

\* line 33: the worker raises within the timeout and future.result raises
\* the same exception
WorkerRaises ==
    /\ rpc = "Awaiting"
    /\ worker = "running"
    /\ worker' = "done"
    /\ \E e \in WorkerErrors : HandleFailure(e)
    /\ UNCHANGED max_retries
    /\ UNCHANGED email_vars

\* lines 33-35: future.result times out and TimeoutError is raised inside
\* the with block, whose exit calls executor.shutdown(wait=True): the
\* caller now waits for the worker thread
TimeoutFires ==
    /\ rpc = "Awaiting"
    /\ worker \in {"running", "hung"}
    /\ rpc' = "ShuttingDown"
    /\ UNCHANGED <<max_retries, retries, last_error, worker, log, rresult>>
    /\ UNCHANGED email_vars

\* line 25: the worker finishes at last, shutdown returns and TimeoutError
\* leaves scrape_with_timeout
ShutdownReturns ==
    /\ rpc = "ShuttingDown"
    /\ worker = "running"
    /\ worker' = "done"
    /\ HandleFailure(ScrapeTimedOut)
    /\ UNCHANGED max_retries
    /\ UNCHANGED email_vars

\* line 46 false, lines 76-78
Exhausted ==
    /\ rpc = "Loop"
    /\ ~(retries < max_retries)
    /\ rresult' = [kind |-> "raised", error |-> ExhaustedError(last_error)]
    /\ rpc' = "Raised"
    /\ UNCHANGED <<max_retries, retries, last_error, worker, log>>
    /\ UNCHANGED email_vars

RetryNext ==
    \/ StartAttempt
    \/ WorkerReturns
    \/ WorkerRaises
    \/ TimeoutFires
    \/ ShutdownReturns
    \/ Exhausted

RetrySpec == RetryInit /\ [][RetryNext]_vars

\* ------------------------------------------------------------------ C19

\* the attempts started so far
Attempts == Cardinality({k \in 1..Len(log) : log[k].ev = "attempt"})

\* the failures the contract calls retryable: a timeout, or an error whose
\* text names a rate limit or an authentication problem
RateLimitWords ==
    { <<"4", "2", "9">>,
      <<"f", "o", "r", "b", "i", "d", "d", "e", "n">>,
      <<"a", "u", "t", "h", "e", "n", "t", "i", "c", "a", "t", "i", "o", "n">>,
      <<"t", "o", "o", " ", "m", "a", "n", "y">> }

RetryableFailure(e) ==
    \/ e.class = "TimeoutError"
    \/ \E w \in RateLimitWords : Contains(Lower(e.text), w)

RetryableFailures ==
    Cardinality({k \in 1..Len(log) :
                    log[k].ev = "failed" /\ RetryableFailure(log[k].error)})

\* C19: scrape_with_retry makes at most max_retries attempts; an attempt
\* is followed by another only if it failed with a timeout or with a
\* rate-limit or authentication error; the first attempt that succeeds
\* returns its result; any other failure is re-raised at once, with no wait
\* and no further attempt; and after max_retries retryable failures the
\* call starts no attempt and ends by raising an error.
C19_BoundedRetry ==
    /\ Attempts <= max_retries
    /\ \A k \in 2..Len(log) :
          log[k].ev = "attempt" =>
              /\ k >= 4
              /\ log[k - 1].ev = "wait"
              /\ log[k - 2].ev = "failed"
              /\ RetryableFailure(log[k - 2].error)
              /\ log[k - 3].ev = "attempt"
    /\ \A k \in 1..Len(log) :
          log[k].ev = "returned" =>
              /\ k = Len(log)
              /\ log[k - 1].ev = "attempt"
              /\ rpc = "Returned"
              /\ rresult = [kind |-> "returned", value |-> "properties"]
    /\ \A k \in 1..Len(log) :
          (log[k].ev = "failed" /\ ~RetryableFailure(log[k].error)) =>
              /\ k = Len(log)
              /\ rpc = "Raised"
              /\ rresult = [kind |-> "raised", error |-> log[k].error]
    /\ RetryableFailures = max_retries =>
          /\ rpc \in {"Loop", "Raised"}
          /\ rpc = "Loop" => (ENABLED Exhausted /\ ~ENABLED StartAttempt)
          /\ rpc = "Raised" => rresult.kind = "raised"
    /\ rpc = "Returned" => log[Len(log)].ev = "returned"

\* three attempts of three, one timed out and one rate-limited, and the
\* call has raised
C19_Witness ==
    /\ rpc = "Raised"
    /\ max_retries = 3
    /\ Attempts = 3
    /\ RetryableFailures = 3
    /\ \E k \in 1..Len(log) : log[k].ev = "failed" /\ log[k].error = ScrapeTimedOut
    /\ \E k \in 1..Len(log) :
          log[k].ev = "failed" /\ log[k].error = Error("Exception", <<"H", "T", "T", "P", " ", "4", "2", "9">>)
    /\ rresult.kind = "raised"

\* ------------------------------------------------------------------ C20

\* C20: scrape_with_timeout prevents hanging: when the timeout has fired
\* and the scrape_property call in the worker thread never completes, the
\* caller is still released, it can go on (TimeoutError reaching
\* scrape_with_retry) without the worker finishing.
C20_CallerReleased ==
    (rpc = "ShuttingDown" /\ worker = "hung") => ENABLED RetryNext

\* ------------------------------------------------------------------ C21

\* the number of waits among the first k entries of the log
WaitsUpTo(k) == Cardinality({j \in 1..k : log[j].ev = "wait"})

\* C21: the wait after the k-th retryable failure (k = 0, 1, 2, ...) is
\* 3 * 2^k seconds, and every wait lies between two attempts: when the
\* call has ended, each wait of the log is followed by a further attempt
\* and none comes after the final attempt.
C21_BackoffBetweenAttempts ==
    /\ \A k \in 1..Len(log) :
          log[k].ev = "wait" =>
              /\ log[k].n = 3 * (2 ^ (WaitsUpTo(k) - 1))
              /\ k >= 3 /\ log[k - 1].ev = "failed" /\ log[k - 2].ev = "attempt"
    /\ rpc \in {"Returned", "Raised"} =>
          \A k \in 1..Len(log) :
              log[k].ev = "wait" => (k < Len(log) /\ log[k + 1].ev = "attempt")

\* ------------------------------------------------------------------ C22

\* C22: at most one candidate is ever Accepted, so verifiedEmails of a
\* report has length 0 or 1; when it has one element, that candidate is
\* bestMatch, every candidate generated before it was probed once and is
\* Rejected or Unknown, and every candidate generated after it was never
\* probed and is Unknown.
C22_AtMostOneAccepted ==
    /\ Cardinality({k \in 1..Len(candidates) : candidates[k].verified = "True"}) <= 1
    /\ (pc = "Done" /\ result.kind = "report") =>
          LET ver == result.verifiedEmails
          IN  /\ Len(ver) <= 1
              /\ Len(ver) = 1 =>
                    /\ result.bestMatch = <<ver[1]>>
                    /\ \A k \in 1..Len(result.allCandidates) :
                          LET c == result.allCandidates[k]
                          IN  /\ GenPos(c.email) < GenPos(ver[1].email) =>
                                    /\ ProbeCount(c.email) = 1
                                    /\ c.verified \in {"False", "None"}
                              /\ GenPos(c.email) > GenPos(ver[1].email) =>
                                    /\ ProbeCount(c.email) = 0
                                    /\ c.verified = "None"
                                    /\ c.verification_message = NoMessage

\* a report whose accepted candidate was generated third, after a rejected
\* and an inconclusive one, with candidates after it
C22_Witness ==
    /\ pc = "Done"
    /\ result.kind = "report"
    /\ Len(result.verifiedEmails) = 1
    /\ GenPos(result.verifiedEmails[1].email) = 3
    /\ CandOf(Gen[1].email).verified = "False"
    /\ CandOf(Gen[2].email).verified = "None"
    /\ Len(Gen) > 3

\* ------------------------------------------------------------------ C23

\* C23: a run that ends in an input failure (NoName or NoPatterns) has
\* performed no network operation when the failure structure is returned:
\* no MX lookup, no availability check, no SMTP probe; nothing was resolved,
\* no connection is open and the socket default timeout was not written.
C23_InputFailureNoNetwork ==
    pc \in {"NoName", "NoPatterns"} =>
        /\ result.kind = "failure"
        /\ net = <<>>
        /\ mx_records = <<>> /\ ~has_mx /\ ~smtp_available /\ mx_host = <<>>
        /\ open_sockets = 0
        /\ socket_default_timeout = <<>>

\* a run with a first name whose domain is empty after the clean-up has
\* returned the failure structure
C23_Witness ==
    /\ pc = "NoPatterns"
    /\ first # <<>>
    /\ result.kind = "failure"
    /\ result.error = "Could not generate email patterns"
    /\ verify_smtp

====
